---- MODULE Spec2Model ----
(***************************************************************************)
(* Model of the mathcount_trainer browser extension.                       *)
(*                                                                         *)
(*   - the content script (contentScript.ts): submission tracker, scan     *)
(*     scheduler, result detector and dedup cache;                         *)
(*   - the background service worker (background.ts): the LOG_WRONG_PROBLEM*)
(*     handler, the durable queue and the flush on sign-in.                *)
(*                                                                         *)
(* Representation.  Texts (problem text, answer, problem id, url, title)   *)
(* are positive integers naming distinct strings, Absent (0) is            *)
(* `undefined`.  Timer ids are positive integers, Undefined (0) is the     *)
(* empty timer slot, exactly the truthiness test the code applies.         *)
(* Wall-clock time is `now` in milliseconds; a timer fires when `now`      *)
(* reaches its due time (no event-loop lateness).  new Date().toISOString()*)
(* is represented by the millisecond value it formats.                     *)
(***************************************************************************)
EXTENDS Integers, Sequences, FiniteSets, TLC

\* ---------------------------------------------------------------- constants
MAX_TEXT_LENGTH == 2000
RESULT_TIMEOUT_MS == 12000
RESULT_SCAN_DELAY_MS == 250
MAX_RECENT_LOGS == 50
MAX_QUEUE_SIZE == 200

\* ------------------------------------------------------------------- bounds
MaxClicks == 2
MaxTime == 12500
MaxTimerId == 5
MaxMsgs == 2
MaxAuthEvents == 3
MaxSig == 52
MaxRuns == 4

Absent == 0
Undefined == 0
NoUser == 0
NoFlush == 0
NoPending == << >>
RESULT_TEXT == "incorrect (J)"

\* the iframes of the page in document order; document 0 is the top document,
\* document f the content document of iframe f
FrameSeq == <<1>>
Frames == { FrameSeq[i] : i \in DOMAIN FrameSeq }
Docs == {0} \cup Frames

\* span.aops-font texts, as character sequences
TxtJ == <<"J">>
TxtQ == <<"q">>
TxtPadJ == <<" ", "J", " ">>
TxtX == <<"x">>
\* the span lists the top document and an iframe document can hold
TopSpanLists == { << >>, <<TxtX, TxtPadJ>>, <<TxtQ>>, <<TxtQ, TxtJ>> }
FrameSpanLists == { << >>, <<TxtJ>> }
SpanLists(d) == IF d = 0 THEN TopSpanLists ELSE FrameSpanLists

\* what the extractors read from the page: url, title, problem text, id, answer
Pages ==
  { [url |-> 1, pageTitle |-> 1, problemText |-> 1, problemId |-> Absent, userAnswer |-> 5],
    [url |-> 1, pageTitle |-> 1, problemText |-> Absent, problemId |-> 3, userAnswer |-> 6] }

\* the amounts by which the clock advances between events (it stops at the
\* next due timer, so every timer's due time is a time point as well)
Delays == {11600}

VARIABLES
  now,                \* wall clock, ms
  pendingSubmission,  \* NoPending or <<snapshot>>
  scanTimeout,        \* timer id or Undefined
  pendingTimeout,     \* timer id or Undefined
  timers,             \* the window's outstanding timers: [id, kind, due, armedAt]
  nextTimerId,        \* next id window.setTimeout returns
  recentSignatures,   \* the Set, as the sequence of its members in insertion order
  spans,              \* spans[d]: texts of the span.aops-font elements of document d
  frameAccess,        \* frameAccess[f]: frame.contentDocument is readable
  observedDocuments,  \* documents with a MutationObserver attached
  page,               \* what the extractors currently read
  sent,               \* payloads handed to sendLog, in order
  built,              \* payloads returned by buildPayload, in order
  clicks,             \* number of submit clicks so far
  lastClick,          \* snapshot taken by the most recent submit click (<< >> before any)
  sub,                \* bookkeeping for the current submission
  lastEvent,          \* what the most recent timer callback did
  dedup               \* bookkeeping for the dedup gate driven on its own

VARIABLES
  currentUser,        \* auth.currentUser: NoUser or a uid
  storedAuth,         \* chrome.storage.local[AUTH_STATE_KEY]
  storageQueue,       \* chrome.storage.local[QUEUED_LOGS_KEY], the durable queue
  remote,             \* payloads written to the remote store, in write order
  flushInFlight,      \* NoFlush or the auth callback whose flush pass is running
  msgs,               \* msgs[m]: the handler of the m-th LOG_WRONG_PROBLEM message
  auths               \* auths[a]: the a-th onAuthStateChanged callback

VARIABLES
  det,                \* the result detector on a page of its own: DOM and last answer
  norm                \* the problem-text extractor on its own: element text and output

fnVars == << det, norm >>

bgVars == << currentUser, storedAuth, storageQueue, remote, flushInFlight, msgs, auths >>

csVars == << now, pendingSubmission, scanTimeout, pendingTimeout, timers, nextTimerId,
             recentSignatures, spans, frameAccess, observedDocuments, page, sent, built,
             clicks, lastClick, sub, lastEvent >>

nonCsVars == << bgVars, dedup, fnVars >>
nonBgVars == << csVars, dedup, fnVars >>

\* ----------------------------------------------------------------- helpers
IsSpace(c) == c = " "

RECURSIVE TrimLeft(_)
TrimLeft(t) == IF t # << >> /\ IsSpace(Head(t)) THEN TrimLeft(Tail(t)) ELSE t

RECURSIVE TrimRight(_)
TrimRight(t) ==
  IF t # << >> /\ IsSpace(t[Len(t)]) THEN TrimRight(SubSeq(t, 1, Len(t) - 1)) ELSE t

\* String.prototype.trim
Trim(t) == TrimRight(TrimLeft(t))

\* the content script's mutable state, as one record
CS == [ pendingSubmission |-> pendingSubmission, scanTimeout |-> scanTimeout,
        pendingTimeout |-> pendingTimeout, timers |-> timers, nextTimerId |-> nextTimerId,
        recentSignatures |-> recentSignatures, sent |-> sent, built |-> built ]

\* window.setTimeout: a new timer with a fresh id, due `delay` ms from now
setTimeout(s, kind, delay) ==
  [ s EXCEPT !.timers = @ \cup { [id |-> s.nextTimerId, kind |-> kind,
                                   due |-> now + delay, armedAt |-> now] },
             !.nextTimerId = @ + 1 ]

\* window.clearTimeout
clearTimeout(s, id) == [ s EXCEPT !.timers = { t \in @ : t.id # id } ]

\* ------------------------------------------------------- result detector
\* safeAccessFrameDocument: the frame's document ("ok"), or null when
\* contentDocument is null or reading it throws; TRUE stands for a document
safeAccessFrameDocument(access) == access = "ok"

\* getAllCandidateDocuments on a page whose iframes are `frames` in document
\* order: the top document, then every iframe document that can be read
CandidateDocumentsOf(frames, acc) == <<0>> \o SelectSeq(frames, LAMBDA f : acc[f])

getAllCandidateDocuments(acc) == CandidateDocumentsOf(FrameSeq, acc)

RECURSIVE AllSpans(_, _)
AllSpans(docs, sp) ==
  IF docs = << >> THEN << >> ELSE sp[Head(docs)] \o AllSpans(Tail(docs), sp)

\* variant: a wrong marker anywhere wins over a correct marker before it
FirstMarker_WrongWins(texts) ==
  IF \E i \in DOMAIN texts : Trim(texts[i]) = TxtJ THEN "wrong"
  ELSE IF \E i \in DOMAIN texts : Trim(texts[i]) = TxtQ THEN "correct"
  ELSE "unknown"

RECURSIVE FirstMarker(_)
FirstMarker(texts) ==
  IF texts = << >> THEN "unknown"
  ELSE LET value == Trim(Head(texts)) IN
       IF value = TxtJ THEN "wrong"
       ELSE IF value = TxtQ THEN "correct"
       ELSE FirstMarker(Tail(texts))

\* getResultState on a page with iframes `frames`
ResultIn(frames, sp, acc) == FirstMarker(AllSpans(CandidateDocumentsOf(frames, acc), sp))

\* getResultState over a given DOM ("unknown" is the code's null)
ResultOf(sp, acc) == FirstMarker(AllSpans(getAllCandidateDocuments(acc), sp))

getResultState == ResultOf(spans, frameAccess)

\* ------------------------------------------------------------- extractors
getProblemText == page.problemText
getProblemId == page.problemId
getUserAnswer == page.userAnswer

\* a ?? b
Coalesce(a, b) == IF a # Absent THEN a ELSE b

\* variant: a fresh DOM read is preferred over the snapshot
buildPayload_FreshFirst(pending) ==
  [ url |-> page.url,
    pageTitle |-> page.pageTitle,
    problemText |-> Coalesce(getProblemText, pending.problemText),
    problemId |-> Coalesce(getProblemId, pending.problemId),
    userAnswer |-> Coalesce(getUserAnswer, pending.userAnswer),
    correctAnswer |-> Absent,
    resultText |-> RESULT_TEXT,
    capturedAt |-> pending.submittedAt ]

buildPayload(pending) ==
  [ url |-> page.url,
    pageTitle |-> page.pageTitle,
    problemText |-> Coalesce(pending.problemText, getProblemText),
    problemId |-> Coalesce(pending.problemId, getProblemId),
    userAnswer |-> Coalesce(pending.userAnswer, getUserAnswer),
    correctAnswer |-> Absent,
    resultText |-> RESULT_TEXT,
    capturedAt |-> pending.submittedAt ]

\* ------------------------------------------------------------ dedup cache
\* JSON.stringify of the four signature fields: two payloads get the same
\* string exactly when the four fields agree
Signature(payload) ==
  [ url |-> payload.url, problemText |-> payload.problemText,
    userAnswer |-> payload.userAnswer, resultText |-> payload.resultText ]

Has(rs, sig) == \E i \in DOMAIN rs : rs[i] = sig

\* variant: a signature that is present is moved to the newest position
shouldLog_Refreshes(rs, payload) ==
  LET signature == Signature(payload) IN
  IF Has(rs, signature)
    THEN [ret |-> FALSE,
          rs |-> Append(SelectSeq(rs, LAMBDA x : x # signature), signature)]
  ELSE LET added == Append(rs, signature) IN
       [ ret |-> TRUE,
         rs |-> IF Len(added) > MAX_RECENT_LOGS THEN Tail(added) ELSE added ]

\* variant: evicts as soon as the Set reaches the capacity
shouldLog_EvictsEarly(rs, payload) ==
  LET signature == Signature(payload) IN
  IF Has(rs, signature) THEN [ret |-> FALSE, rs |-> rs]
  ELSE LET added == Append(rs, signature) IN
       [ ret |-> TRUE,
         rs |-> IF Len(added) >= MAX_RECENT_LOGS THEN Tail(added) ELSE added ]

\* shouldLog: the value returned and the Set afterwards
shouldLog(rs, payload) ==
  LET signature == Signature(payload) IN
  IF Has(rs, signature) THEN [ret |-> FALSE, rs |-> rs]
  ELSE LET added == Append(rs, signature) IN
       [ ret |-> TRUE,
         rs |-> IF Len(added) > MAX_RECENT_LOGS THEN Tail(added) ELSE added ]

sendLog(s, payload) == [ s EXCEPT !.sent = Append(@, payload) ]

\* ------------------------------------------- submission tracker, scheduler
\* variant: the submission is dropped but its expiry timer is left running
clearPending_KeepsTimer(s) == [ s EXCEPT !.pendingSubmission = NoPending ]

clearPending(s) ==
  LET s1 == [ s EXCEPT !.pendingSubmission = NoPending ] IN
  IF s1.pendingTimeout # Undefined
    THEN [ clearTimeout(s1, s1.pendingTimeout) EXCEPT !.pendingTimeout = Undefined ]
    ELSE s1

\* variant: a call while a scan timer is outstanding restarts the delay
scheduleResultScan_Restarts(s) ==
  IF s.pendingSubmission = NoPending THEN s
  ELSE LET s1 == IF s.scanTimeout # Undefined THEN clearTimeout(s, s.scanTimeout) ELSE s IN
       [ setTimeout(s1, "scan", RESULT_SCAN_DELAY_MS) EXCEPT !.scanTimeout = s1.nextTimerId ]

\* variant: a scan timer is armed whether or not one is outstanding
scheduleResultScan_NoGuard(s) ==
  IF s.pendingSubmission = NoPending THEN s
  ELSE [ setTimeout(s, "scan", RESULT_SCAN_DELAY_MS) EXCEPT !.scanTimeout = s.nextTimerId ]

scheduleResultScan(s) ==
  IF s.pendingSubmission = NoPending \/ s.scanTimeout # Undefined THEN s
  ELSE [ setTimeout(s, "scan", RESULT_SCAN_DELAY_MS) EXCEPT !.scanTimeout = s.nextTimerId ]

\* variant: arms the new expiry timer without clearing the old one
startPendingTimeout_NoClear(s) ==
  [ setTimeout(s, "expiry", RESULT_TIMEOUT_MS) EXCEPT !.pendingTimeout = s.nextTimerId ]

startPendingTimeout(s) ==
  LET s1 == IF s.pendingTimeout # Undefined THEN clearTimeout(s, s.pendingTimeout) ELSE s IN
  [ setTimeout(s1, "expiry", RESULT_TIMEOUT_MS) EXCEPT !.pendingTimeout = s1.nextTimerId ]

\* variant: a scan that finds no marker gives the submission up
checkForResult_ClearsOnUnknown(s) ==
  IF s.pendingSubmission = NoPending THEN s
  ELSE LET result == getResultState
           pending == s.pendingSubmission[1]
           s1 == clearPending(s)
       IN IF result = "wrong"
            THEN LET payload == buildPayload(pending)
                     s2 == [ s1 EXCEPT !.built = Append(@, payload) ]
                     gate == shouldLog(s2.recentSignatures, payload)
                     s3 == [ s2 EXCEPT !.recentSignatures = gate.rs ]
                 IN IF gate.ret THEN sendLog(s3, payload) ELSE s3
            ELSE s1

\* variant: every result found is logged, correct or wrong
checkForResult_LogsAnyResult(s) ==
  IF s.pendingSubmission = NoPending THEN s
  ELSE LET result == getResultState IN
       IF result = "unknown" THEN s
       ELSE LET pending == s.pendingSubmission[1]
                s1 == clearPending(s)
                payload == buildPayload(pending)
                s2 == [ s1 EXCEPT !.built = Append(@, payload) ]
                gate == shouldLog(s2.recentSignatures, payload)
                s3 == [ s2 EXCEPT !.recentSignatures = gate.rs ]
            IN IF gate.ret THEN sendLog(s3, payload) ELSE s3

checkForResult(s) ==
  IF s.pendingSubmission = NoPending THEN s
  ELSE LET result == getResultState IN
       IF result = "unknown" THEN s
       ELSE LET pending == s.pendingSubmission[1]
                s1 == clearPending(s)
            IN IF result = "wrong"
                 THEN LET payload == buildPayload(pending)
                          s2 == [ s1 EXCEPT !.built = Append(@, payload) ]
                          gate == shouldLog(s2.recentSignatures, payload)
                          s3 == [ s2 EXCEPT !.recentSignatures = gate.rs ]
                      IN IF gate.ret THEN sendLog(s3, payload) ELSE s3
                 ELSE s1

\* the snapshot a submit click takes
Snapshot ==
  [ problemText |-> getProblemText, problemId |-> getProblemId,
    userAnswer |-> getUserAnswer, submittedAt |-> now ]

\* variant: a click while a submission is pending keeps the first snapshot
handleSubmitClick_KeepsFirst(s) ==
  scheduleResultScan(startPendingTimeout(
    IF s.pendingSubmission = NoPending
      THEN [ s EXCEPT !.pendingSubmission = <<Snapshot>> ] ELSE s ))

handleSubmitClick(s) ==
  scheduleResultScan(startPendingTimeout([ s EXCEPT !.pendingSubmission = <<Snapshot>> ]))

\* ----------------------------------------------------- content script steps
NoEvent == [kind |-> "none", result |-> "none", hadPending |-> FALSE, stale |-> FALSE,
            delivered |-> FALSE]

\* bookkeeping for the submission of the latest click: how and when it ended,
\* whether the wrong marker appeared while it was pending (jNew) and was still
\* what the detector answered when it ended (jAtEnd), how many payloads were
\* built for it (each is handed to sendLog as it is built) and how many of
\* them sendLog passed on to chrome.runtime.sendMessage (attempts); markerAt is
\* the time since which the detector would have answered correct or wrong
\* without interruption while the submission was pending (NoMarker: it would
\* answer unknown)
NoMarker == 0 - 1
NoSub == [endedBy |-> "none", endedAt |-> 0, jNew |-> FALSE, jAtEnd |-> FALSE,
          built |-> 0, attempts |-> 0, markerAt |-> NoMarker]
NewSub == [NoSub EXCEPT !.endedBy = "pending"]

\* the script's variables take the values of record s (timer ids are capped)
Install(s) ==
  /\ s.nextTimerId <= MaxTimerId + 1
  /\ pendingSubmission' = s.pendingSubmission
  /\ scanTimeout' = s.scanTimeout
  /\ pendingTimeout' = s.pendingTimeout
  /\ timers' = s.timers
  /\ nextTimerId' = s.nextTimerId
  /\ recentSignatures' = s.recentSignatures
  /\ sent' = s.sent
  /\ built' = s.built

\* the step leads the script to s and the DOM to (sp, acc); if it ends the
\* submission, `cause` is why
Track(base, s, cause, sp, acc) ==
  LET ending == base.endedBy = "pending" /\ s.pendingSubmission = NoPending
      appears == /\ base.endedBy = "pending" /\ s.pendingSubmission # NoPending
                 /\ getResultState # "wrong" /\ ResultOf(sp, acc) = "wrong"
  IN
  sub' = [ endedBy |-> IF ending THEN cause ELSE base.endedBy,
           endedAt |-> IF ending THEN now ELSE base.endedAt,
           jNew |-> base.jNew \/ appears,
           jAtEnd |-> IF ending THEN base.jNew /\ getResultState = "wrong" ELSE base.jAtEnd,
           built |-> base.built + (Len(s.built) - Len(built)),
           attempts |-> base.attempts + (Len(s.sent) - Len(sent)),
           markerAt |-> IF s.pendingSubmission = NoPending THEN base.markerAt
                        ELSE IF ResultOf(sp, acc) = "unknown" THEN NoMarker
                        ELSE IF base.markerAt # NoMarker THEN base.markerAt
                        ELSE now ]

InitCS ==
  /\ now = 0
  /\ pendingSubmission = NoPending
  /\ scanTimeout = Undefined
  /\ pendingTimeout = Undefined
  /\ timers = {}
  /\ nextTimerId = 1
  /\ recentSignatures = << >>
  /\ spans = [d \in Docs |-> << >>]
  /\ frameAccess \in [Frames -> BOOLEAN]
  /\ observedDocuments = {0} \cup { f \in Frames : frameAccess[f] }
  /\ page \in Pages
  /\ sent = << >>
  /\ built = << >>
  /\ clicks = 0
  /\ lastClick = << >>
  /\ sub = NoSub
  /\ lastEvent = NoEvent

\* click on the submit button
SubmitClick ==
  /\ clicks < MaxClicks
  /\ LET s == handleSubmitClick(CS) IN
       /\ Install(s)
       /\ Track(NewSub, s, "none", spans, frameAccess)
  /\ clicks' = clicks + 1
  /\ lastClick' = <<Snapshot>>
  /\ UNCHANGED << now, spans, frameAccess, observedDocuments, page, lastEvent >>
  /\ UNCHANGED nonCsVars

\* the MutationObserver callback of document d (the iframes of the page are
\* all tracked at start-up, so its trackIframes call finds nothing new)
ObserverCallback(s, d) == IF d \in observedDocuments THEN scheduleResultScan(s) ELSE s

\* the page changes the result spans of document d to sl (sl = spans[d]: some
\* other subtree change of d); the observer of d, if any, is notified
Mutation(d, sl) ==
  /\ IF d = 0 THEN TRUE ELSE frameAccess[d]
  /\ spans' = [spans EXCEPT ![d] = sl]
  /\ LET s == ObserverCallback(CS, d) IN
       /\ Install(s)
       /\ Track(sub, s, "none", spans', frameAccess)
  /\ UNCHANGED << now, frameAccess, observedDocuments, page, clicks, lastClick, lastEvent >>
  /\ UNCHANGED nonCsVars

\* the problem shown or the answer typed changes; a change of the problem
\* text or id is a subtree change of the top document, typing is not
PageChange(p) ==
  /\ p # page
  /\ page' = p
  /\ LET s == IF p.problemText # page.problemText \/ p.problemId # page.problemId
                THEN ObserverCallback(CS, 0) ELSE CS IN
       /\ Install(s)
       /\ Track(sub, s, "none", spans, frameAccess)
  /\ UNCHANGED << now, spans, frameAccess, observedDocuments, clicks, lastClick, lastEvent >>
  /\ UNCHANGED nonCsVars

\* iframe f navigates: a new content document, readable or not, not yet observed
FrameNavigate(f, acc) ==
  /\ frameAccess' = [frameAccess EXCEPT ![f] = acc]
  /\ spans' = [spans EXCEPT ![f] = << >>]
  /\ observedDocuments' = observedDocuments \ {f}
  /\ Install(CS)
  /\ Track(sub, CS, "none", spans', frameAccess')
  /\ UNCHANGED << now, page, clicks, lastClick, lastEvent >>
  /\ UNCHANGED nonCsVars

\* the load event of iframe f: tryObserve
FrameLoad(f) ==
  /\ frameAccess[f]
  /\ f \notin observedDocuments
  /\ observedDocuments' = observedDocuments \cup {f}
  /\ Install(CS)
  /\ UNCHANGED << now, spans, frameAccess, page, clicks, lastClick, sub, lastEvent >>
  /\ UNCHANGED nonCsVars

\* the scan timer t fires: scanTimeout = undefined; checkForResult()
ScanFire(t) ==
  /\ t \in timers
  /\ t.kind = "scan"
  /\ t.due <= now
  /\ LET s0 == [ CS EXCEPT !.timers = @ \ {t}, !.scanTimeout = Undefined ]
         s == checkForResult(s0)
     IN /\ Install(s)
        /\ Track(sub, s, getResultState, spans, frameAccess)
        /\ lastEvent' = [ kind |-> "scan",
                          result |-> getResultState,
                          hadPending |-> pendingSubmission # NoPending,
                          stale |-> lastClick # << >> /\ t.armedAt < lastClick[1].submittedAt,
                          delivered |-> Len(s.sent) > Len(sent) ]
  /\ UNCHANGED << now, spans, frameAccess, observedDocuments, page, clicks, lastClick >>
  /\ UNCHANGED nonCsVars

\* the expiry timer t fires: clearPending()
ExpiryFire(t) ==
  /\ t \in timers
  /\ t.kind = "expiry"
  /\ t.due <= now
  /\ LET s0 == [ CS EXCEPT !.timers = @ \ {t} ]
         s == clearPending(s0)
     IN /\ Install(s)
        /\ Track(sub, s, "expiry", spans, frameAccess)
        /\ lastEvent' = [ kind |-> "expiry",
                          result |-> getResultState,
                          hadPending |-> pendingSubmission # NoPending,
                          stale |-> FALSE,
                          delivered |-> FALSE ]
  /\ UNCHANGED << now, spans, frameAccess, observedDocuments, page, clicks, lastClick >>
  /\ UNCHANGED nonCsVars

\* time passes, up to the next timer that is due
AdvanceTime(d) ==
  /\ \A t \in timers : t.due > now
  /\ LET target == now + d
         next == IF \E t \in timers : t.due < target
                   THEN CHOOSE x \in { t.due : t \in timers } :
                          \A t \in timers : x <= t.due
                   ELSE target
     IN /\ next <= MaxTime
        /\ now' = next
  /\ UNCHANGED << pendingSubmission, scanTimeout, pendingTimeout, timers, nextTimerId,
                  recentSignatures, spans, frameAccess, observedDocuments, page, sent,
                  built, clicks, lastClick, sub, lastEvent >>
  /\ UNCHANGED nonCsVars

\* -------------------------------------------------- background service worker
NoResp == [kind |-> "none", queuedCount |-> 0]
\* a message handler: where it is, the user it read, the queue it loaded or
\* saved, its response; and, for its payload, whether an enqueue has saved it
\* in the durable queue (placed) and whether a user signed in after that
\* (signedIn)
NewMsg == [pc |-> "new", user |-> NoUser, queue |-> << >>, resp |-> NoResp,
           placed |-> FALSE, signedIn |-> FALSE]
NewAuth == [pc |-> "new", user |-> NoUser, loaded |-> << >>, todo |-> << >>,
            remaining |-> << >>, attempts |-> << >>]

Msgs == 1 .. MaxMsgs
AuthEvents == 1 .. MaxAuthEvents
Users == {NoUser, 1}

\* a user signs in: noted for the payloads placed in the queue so far
NoteSignIn(ms) == [k \in DOMAIN ms |-> [ms[k] EXCEPT !.signedIn = @ \/ ms[k].placed]]

normalizeAuthStatus(user) == IF user # NoUser THEN "signed_in" ELSE "signed_out"

\* loadQueue: what storage holds when the read is served
loadQueue == storageQueue

RECURSIVE ShiftWhileOver(_)
ShiftWhileOver(queue) ==
  IF Len(queue) > MAX_QUEUE_SIZE THEN ShiftWhileOver(Tail(queue)) ELSE queue

\* variant: the payload is put at the head of the queue
enqueueProblemLog_Prepends(queue, payload) == ShiftWhileOver(<<payload>> \o queue)

\* variant: no trimming to the capacity
enqueueProblemLog_NoTrim(queue, payload) == Append(queue, payload)

\* enqueueProblemLog after its load: push, shift while over capacity; the
\* result is what saveQueue writes and its length is what is returned
enqueueProblemLog(queue, payload) == ShiftWhileOver(Append(queue, payload))

\* writeProblemLog when addDoc succeeds
writeProblemLog(store, payload) == Append(store, payload)

\* variant: a pass is started whether or not one is in flight
flushQueuedLogs_NoGuard(inFlight, a) == [pc |-> "flLoad", flushInFlight |-> a]

\* flushQueuedLogs on entry: wait for the pass in flight, or start one
flushQueuedLogs(inFlight, a) ==
  IF inFlight # NoFlush THEN [pc |-> "wait", flushInFlight |-> inFlight]
  ELSE [pc |-> "flLoad", flushInFlight |-> a]

\* variant: the payloads kept for retry are the ones whose write succeeded
flushAttempt_KeepsDelivered(t, ok) ==
  LET payload == Head(t.todo) IN
  [ t EXCEPT !.todo = Tail(@),
             !.remaining = IF ok THEN Append(@, payload) ELSE @,
             !.attempts = Append(@, <<payload, ok>>),
             !.pc = IF Tail(t.todo) = << >> THEN "flSave" ELSE "flWrite" ]

\* one iteration of the flush loop over pass record t: the write of the next
\* payload succeeded (ok) or threw
flushAttempt(t, ok) ==
  LET payload == Head(t.todo) IN
  [ t EXCEPT !.todo = Tail(@),
             !.remaining = IF ok THEN @ ELSE Append(@, payload),
             !.attempts = Append(@, <<payload, ok>>),
             !.pc = IF Tail(t.todo) = << >> THEN "flSave" ELSE "flWrite" ]

\* every callback that awaits the pass in flight resumes and returns
Release(as) == [ b \in AuthEvents |-> IF as[b].pc = "wait" THEN [as[b] EXCEPT !.pc = "done"]
                                      ELSE as[b] ]

InitBG ==
  /\ currentUser = NoUser
  /\ storedAuth = normalizeAuthStatus(NoUser)
  /\ storageQueue = << >>
  /\ remote = << >>
  /\ flushInFlight = NoFlush
  /\ msgs = [m \in Msgs |-> NewMsg]
  /\ auths = [a \in AuthEvents |-> NewAuth]

\* the m-th LOG_WRONG_PROBLEM message arrives; its payload is m
Receive(m) ==
  /\ msgs[m].pc = "new"
  /\ \A k \in Msgs : k < m => msgs[k].pc # "new"
  /\ msgs' = [msgs EXCEPT ![m].user = currentUser,
                          ![m].pc = IF currentUser = NoUser THEN "enqLoad" ELSE "write"]
  /\ UNCHANGED << currentUser, storedAuth, storageQueue, remote, flushInFlight, auths >>
  /\ UNCHANGED nonBgVars

\* the handler's remote write succeeds
WriteOk(m) ==
  /\ msgs[m].pc = "write"
  /\ remote' = writeProblemLog(remote, m)
  /\ msgs' = [msgs EXCEPT ![m].pc = "respLoad"]
  /\ UNCHANGED << currentUser, storedAuth, storageQueue, flushInFlight, auths >>
  /\ UNCHANGED nonBgVars

\* after a successful write: load the queue for its length and respond
RespLoad(m) ==
  /\ msgs[m].pc = "respLoad"
  /\ msgs' = [msgs EXCEPT ![m].pc = "done",
                          ![m].resp = [kind |-> "delivered", queuedCount |-> Len(loadQueue)]]
  /\ UNCHANGED << currentUser, storedAuth, storageQueue, remote, flushInFlight, auths >>
  /\ UNCHANGED nonBgVars

\* the handler's remote write throws
WriteFail(m) ==
  /\ msgs[m].pc = "write"
  /\ msgs' = [msgs EXCEPT ![m].pc = "enqLoad"]
  /\ UNCHANGED << currentUser, storedAuth, storageQueue, remote, flushInFlight, auths >>
  /\ UNCHANGED nonBgVars

\* enqueueProblemLog: the load is served
EnqLoad(m) ==
  /\ msgs[m].pc = "enqLoad"
  /\ msgs' = [msgs EXCEPT ![m].pc = "enqSave", ![m].queue = loadQueue]
  /\ UNCHANGED << currentUser, storedAuth, storageQueue, remote, flushInFlight, auths >>
  /\ UNCHANGED nonBgVars

\* enqueueProblemLog resumes: push, trim, save, respond with the length
EnqSave(m) ==
  /\ msgs[m].pc = "enqSave"
  /\ LET queue == enqueueProblemLog(msgs[m].queue, m) IN
       /\ storageQueue' = queue
       /\ msgs' = [msgs EXCEPT ![m].pc = "done", ![m].queue = queue, ![m].placed = TRUE,
                               ![m].resp = [kind |-> IF msgs[m].user = NoUser
                                                       THEN "queued" ELSE "error",
                                            queuedCount |-> Len(queue)]]
  /\ UNCHANGED << currentUser, storedAuth, remote, flushInFlight, auths >>
  /\ UNCHANGED nonBgVars

\* the auth state changes to u: onAuthStateChanged callback a stores the status
AuthChange(a, u) ==
  /\ auths[a].pc = "new"
  /\ \A b \in AuthEvents : b < a => auths[b].pc # "new"
  /\ u # currentUser
  /\ currentUser' = u
  /\ storedAuth' = normalizeAuthStatus(u)
  /\ auths' = [auths EXCEPT ![a].user = u,
                            ![a].pc = IF u # NoUser THEN "afterSet" ELSE "done"]
  /\ msgs' = IF u # NoUser THEN NoteSignIn(msgs) ELSE msgs
  /\ UNCHANGED << storageQueue, remote, flushInFlight >>
  /\ UNCHANGED nonBgVars

\* callback a, signed in, calls flushQueuedLogs
FlushEnter(a) ==
  /\ auths[a].pc = "afterSet"
  /\ LET r == flushQueuedLogs(flushInFlight, a) IN
       /\ flushInFlight' = r.flushInFlight
       /\ auths' = [auths EXCEPT ![a].pc = r.pc]
  /\ UNCHANGED << currentUser, storedAuth, storageQueue, remote, msgs >>
  /\ UNCHANGED nonBgVars

\* the pass loads the queue; an empty queue ends the pass at once
FlushLoad(a) ==
  /\ auths[a].pc = "flLoad"
  /\ LET queue == loadQueue IN
       IF queue = << >>
         THEN /\ auths' = Release([auths EXCEPT ![a].pc = "done"])
              /\ flushInFlight' = NoFlush
         ELSE /\ auths' = [auths EXCEPT ![a].pc = "flWrite", ![a].loaded = queue,
                                        ![a].todo = queue, ![a].remaining = << >>,
                                        ![a].attempts = << >>]
              /\ UNCHANGED flushInFlight
  /\ UNCHANGED << currentUser, storedAuth, storageQueue, remote, msgs >>
  /\ UNCHANGED nonBgVars

\* the pass writes the next payload and the write succeeds
FlushWriteOk(a) ==
  /\ auths[a].pc = "flWrite"
  /\ remote' = writeProblemLog(remote, Head(auths[a].todo))
  /\ auths' = [auths EXCEPT ![a] = flushAttempt(@, TRUE)]
  /\ UNCHANGED << currentUser, storedAuth, storageQueue, flushInFlight, msgs >>
  /\ UNCHANGED nonBgVars

\* the pass writes the next payload and the write throws
FlushWriteFail(a) ==
  /\ auths[a].pc = "flWrite"
  /\ auths' = [auths EXCEPT ![a] = flushAttempt(@, FALSE)]
  /\ UNCHANGED << currentUser, storedAuth, storageQueue, remote, flushInFlight, msgs >>
  /\ UNCHANGED nonBgVars

\* the pass saves what remains
FlushSave(a) ==
  /\ auths[a].pc = "flSave"
  /\ storageQueue' = auths[a].remaining
  /\ auths' = [auths EXCEPT ![a].pc = "flSaved"]
  /\ UNCHANGED << currentUser, storedAuth, remote, flushInFlight, msgs >>
  /\ UNCHANGED nonBgVars

\* the save is acknowledged: the pass ends, flushInFlight = null
FlushDone(a) ==
  /\ auths[a].pc = "flSaved"
  /\ auths' = Release([auths EXCEPT ![a].pc = "done"])
  /\ flushInFlight' = NoFlush
  /\ UNCHANGED << currentUser, storedAuth, storageQueue, remote, msgs >>
  /\ UNCHANGED nonBgVars


\* ------------------------------------------------ the dedup gate on its own
\* payload number k: distinct numbers differ in one of url, problemText and
\* userAnswer, so they have distinct signatures; c is its capturedAt
DedupPayload(k, c) ==
  [ url |-> IF k % 3 = 0 THEN k ELSE 1,
    pageTitle |-> 1,
    problemText |-> IF k % 3 = 1 THEN k ELSE 1,
    problemId |-> Absent,
    userAnswer |-> IF k % 3 = 2 THEN k ELSE 1,
    correctAnswer |-> Absent,
    resultText |-> RESULT_TEXT,
    capturedAt |-> c ]

NoCall == [ret |-> FALSE, delivered |-> FALSE, afterTrue |-> FALSE, between |-> 0]

InitDedup == dedup = [nextSig |-> 2, tTrue |-> FALSE, others |-> {}, lastT |-> NoCall]

\* the dedup gate of checkForResult applied to a payload:
\* if (shouldLog(payload)) sendLog(payload)
logIfNew(s, payload) ==
  LET gate == shouldLog(s.recentSignatures, payload)
      s1 == [ s EXCEPT !.recentSignatures = gate.rs ]
  IN IF gate.ret THEN sendLog(s1, payload) ELSE s1

\* a payload with signature number k reaches the gate.  Number 1 is the
\* signature followed: lastT describes its latest call, `between` counting the
\* distinct other signatures passed since its last call that returned true
GateCall(k, c) ==
  /\ k <= MaxSig
  /\ LET payload == DedupPayload(k, c)
         ret == shouldLog(recentSignatures, payload).ret
         s == logIfNew(CS, payload)
     IN /\ Install(s)
        /\ dedup' =
             IF k = 1
               THEN [ dedup EXCEPT
                        !.lastT = [ ret |-> ret, delivered |-> Len(s.sent) > Len(sent),
                                    afterTrue |-> dedup.tTrue,
                                    between |-> Cardinality(dedup.others) ],
                        !.tTrue = @ \/ ret,
                        !.others = IF ret THEN {} ELSE @ ]
               ELSE [ dedup EXCEPT
                        !.nextSig = IF k = @ THEN @ + 1 ELSE @,
                        !.others = IF dedup.tTrue THEN @ \cup {k} ELSE @ ]
  /\ UNCHANGED << now, spans, frameAccess, observedDocuments, page, clicks, lastClick,
                  sub, lastEvent >>
  /\ UNCHANGED << bgVars, fnVars >>

vars == << csVars, bgVars, dedup, fnVars >>

\* ------------------------------------------ the problem-text extractor on its own
\* A text is a sequence of runs [ch, n]: n >= 1 copies of character ch.  "a"
\* stands for any character that is not whitespace; " " and "\n" are two of
\* the characters that \s and trim() treat as whitespace.
IsWhitespace(ch) == ch \in {" ", "\n"}

RECURSIVE TextLength(_)
TextLength(text) == IF text = << >> THEN 0 ELSE Head(text).n + TextLength(Tail(text))

\* text.replace(/\s+/g, ' '): every maximal stretch of whitespace becomes one space
RECURSIVE CollapseWhitespace(_)
CollapseWhitespace(text) ==
  IF text = << >> THEN << >>
  ELSE IF IsWhitespace(Head(text).ch)
    THEN IF Tail(text) # << >> /\ IsWhitespace(Head(Tail(text)).ch)
           THEN CollapseWhitespace(Tail(text))
           ELSE << [ch |-> " ", n |-> 1] >> \o CollapseWhitespace(Tail(text))
    ELSE << Head(text) >> \o CollapseWhitespace(Tail(text))

RECURSIVE TrimStart(_)
TrimStart(text) ==
  IF text # << >> /\ IsWhitespace(Head(text).ch) THEN TrimStart(Tail(text)) ELSE text

RECURSIVE TrimEnd(_)
TrimEnd(text) ==
  IF text # << >> /\ IsWhitespace(text[Len(text)].ch)
    THEN TrimEnd(SubSeq(text, 1, Len(text) - 1)) ELSE text

\* String.prototype.trim on a text
TrimText(text) == TrimEnd(TrimStart(text))

normalizeText(text) == TrimText(CollapseWhitespace(text))

\* text.slice(0, k)
RECURSIVE Slice(_, _)
Slice(text, k) ==
  IF text = << >> \/ k <= 0 THEN << >>
  ELSE IF Head(text).n <= k
    THEN << Head(text) >> \o Slice(Tail(text), k - Head(text).n)
    ELSE << [Head(text) EXCEPT !.n = k] >>

\* what getProblemText returns: undefined, or a string
NoText == [absent |-> TRUE, text |-> << >>]
SomeText(t) == [absent |-> FALSE, text |-> t]

\* getProblemText on a document whose problem element, if it has one, has
\* the given textContent
getProblemTextFrom(hasElement, textContent) ==
  LET text == IF hasElement /\ textContent # << >> THEN normalizeText(textContent)
              ELSE << >>
  IN IF TextLength(text) > 0 THEN SomeText(Slice(text, MAX_TEXT_LENGTH)) ELSE NoText

\* the runs texts are made of: short ones and ones that reach the limit
RunLengths == {1, 2, MAX_TEXT_LENGTH - 1, MAX_TEXT_LENGTH}
Runs == [ch : {"a", " ", "\n"}, n : RunLengths]

\* the problem element gets a run more of text and getProblemText is called
Extract(run) ==
  /\ Len(norm.textContent) < MaxRuns
  /\ LET textContent == Append(norm.textContent, run) IN
       norm' = [ hasElement |-> TRUE, textContent |-> textContent,
                 output |-> getProblemTextFrom(TRUE, textContent) ]
  /\ UNCHANGED << csVars, bgVars, dedup, det >>

\* getProblemText is called on a document that has no problem element, or
\* whose problem element is empty
ExtractNothing(hasElement) ==
  /\ norm.textContent = << >>
  /\ norm' = [ hasElement |-> hasElement, textContent |-> << >>,
               output |-> getProblemTextFrom(hasElement, << >>) ]
  /\ UNCHANGED << csVars, bgVars, dedup, det >>

\* ---------------------------------------------- the result detector on its own
\* a page with two iframes, iframe 2 before iframe 1 in document order
DetFrameSeq == <<2, 1>>
DetFrames == {1, 2}
DetDocs == {0} \cup DetFrames
DetSpanLists == { << >>, <<TxtJ>>, <<TxtQ>>, <<TxtX, TxtPadJ>>, <<TxtQ, TxtJ>> }
\* reading frame.contentDocument gives the document, gives null, or throws
Access == {"ok", "null", "throws"}

InitFn ==
  /\ det = [ sp |-> [d \in DetDocs |-> << >>], access |-> [f \in DetFrames |-> "ok"],
            result |-> "unknown", scanned |-> FALSE ]
  /\ norm = [ hasElement |-> FALSE, textContent |-> << >>, output |-> NoText ]

\* the page changes the result spans of document d
DetMutation(d, sl) ==
  /\ sl # det.sp[d]
  /\ det' = [det EXCEPT !.sp[d] = sl, !.scanned = FALSE]
  /\ UNCHANGED << csVars, bgVars, dedup, norm >>

\* what reading the content document of iframe f does changes
DetFrameAccess(f, a) ==
  /\ a # det.access[f]
  /\ det' = [det EXCEPT !.access[f] = a, !.scanned = FALSE]
  /\ UNCHANGED << csVars, bgVars, dedup, norm >>

\* getResultState is called
DetScan ==
  /\ ~ det.scanned
  /\ det' = [det EXCEPT
              !.result = ResultIn(DetFrameSeq, det.sp,
                                  [f \in DetFrames |-> safeAccessFrameDocument(det.access[f])]),
              !.scanned = TRUE]
  /\ UNCHANGED << csVars, bgVars, dedup, norm >>

Init == InitCS /\ InitBG /\ InitDedup /\ InitFn

\* one fixed page, for the specifications in which the page plays no part
OnePage == CHOOSE p \in Pages : p.problemText # Absent
InitFixedPage == InitCS /\ page = OnePage /\ \A f \in Frames : frameAccess[f]
InitOnePage == InitFixedPage /\ InitBG /\ InitDedup /\ InitFn

NextCS ==
  \/ SubmitClick
  \/ \E d \in Docs : \E sl \in SpanLists(d) : Mutation(d, sl)
  \/ \E p \in Pages : PageChange(p)
  \/ \E f \in Frames, acc \in BOOLEAN : FrameNavigate(f, acc)
  \/ \E f \in Frames : FrameLoad(f)
  \/ \E t \in timers : ScanFire(t)
  \/ \E t \in timers : ExpiryFire(t)
  \/ \E d \in Delays : AdvanceTime(d)

\* the content script on a page
SpecCS == Init /\ [][NextCS]_vars

NextBG ==
  \/ \E m \in Msgs : Receive(m)
  \/ \E m \in Msgs : WriteOk(m)
  \/ \E m \in Msgs : RespLoad(m)
  \/ \E m \in Msgs : WriteFail(m)
  \/ \E m \in Msgs : EnqLoad(m)
  \/ \E m \in Msgs : EnqSave(m)
  \/ \E a \in AuthEvents, u \in Users : AuthChange(a, u)
  \/ \E a \in AuthEvents : FlushEnter(a)
  \/ \E a \in AuthEvents : FlushLoad(a)
  \/ \E a \in AuthEvents : FlushWriteOk(a)
  \/ \E a \in AuthEvents : FlushWriteFail(a)
  \/ \E a \in AuthEvents : FlushSave(a)
  \/ \E a \in AuthEvents : FlushDone(a)

\* the background service worker
SpecBG == InitOnePage /\ [][NextBG]_vars

NextDedup ==
  \E k \in {1, 2, dedup.nextSig} : \E c \in (IF k = 1 THEN {10, 20} ELSE {10}) : GateCall(k, c)

\* the dedup gate under a stream of payloads
SpecDedup == InitOnePage /\ [][NextDedup]_vars

NextDetect ==
  \/ \E d \in DetDocs : \E sl \in DetSpanLists : DetMutation(d, sl)
  \/ \E f \in DetFrames : \E a \in Access : DetFrameAccess(f, a)
  \/ DetScan

\* the result detector under changes of the page
SpecDetect == InitOnePage /\ [][NextDetect]_vars

NextNorm ==
  \/ \E run \in Runs : Extract(run)
  \/ \E hasElement \in BOOLEAN : ExtractNothing(hasElement)

\* the problem-text extractor under growing element texts
SpecNorm == InitOnePage /\ [][NextNorm]_vars

\* a durable queue left near capacity by earlier sessions
OldQueue(n) == [i \in 1 .. n |-> 1000 + i]

InitCap ==
  /\ InitFixedPage /\ InitDedup /\ InitFn
  /\ currentUser \in Users
  /\ storedAuth = normalizeAuthStatus(currentUser)
  /\ storageQueue \in { OldQueue(n) : n \in {0, MAX_QUEUE_SIZE - 2, MAX_QUEUE_SIZE - 1,
                                              MAX_QUEUE_SIZE} }
  /\ remote = << >>
  /\ flushInFlight = NoFlush
  /\ msgs = [m \in Msgs |-> NewMsg]
  /\ auths = [a \in AuthEvents |-> NewAuth]

NextCap ==
  \/ \E m \in Msgs : Receive(m)
  \/ \E m \in Msgs : WriteOk(m)
  \/ \E m \in Msgs : RespLoad(m)
  \/ \E m \in Msgs : WriteFail(m)
  \/ \E m \in Msgs : EnqLoad(m)
  \/ \E m \in Msgs : EnqSave(m)

\* the message handler alone (signed out, or signed in with no flush running)
\* on a queue that earlier sessions left near capacity
SpecCap == InitCap /\ [][NextCap]_vars

\* ====================================================== content script claims
NoExpiryTimer == ~ \E t \in timers : t.kind = "expiry"
Ended == sub.endedBy \in {"correct", "wrong", "expiry"}

\* C1: whenever a submission has ended and the wrong marker had
\* appeared in a candidate document after the click and was still showing at
\* that moment (so it appeared within the expiry window), exactly one payload
\* was built for it and handed to sendLog (sendLog is called once per payload
\* built, in the step that builds it).
C1_ExactlyOneAttemptPerWrongMarker ==
  (Ended /\ sub.jAtEnd) => sub.built = 1

\* C2: once a scan has found the correct marker for the pending submission,
\* no payload is built or sent for it, the pending submission is cleared and
\* no expiry timer is left.
C2_CorrectMeansNoLog ==
  sub.endedBy = "correct" =>
    /\ sub.built = 0 /\ sub.attempts = 0
    /\ pendingSubmission = NoPending
    /\ pendingTimeout = Undefined
    /\ NoExpiryTimer

C2_Witness == sub.endedBy = "correct" /\ lastEvent.kind = "scan" /\ lastEvent.hadPending

\* C3: a pending submission always has its expiry timer due 12000 ms after the
\* latest click; when that timer ends the submission it does so exactly then,
\* nothing was built or sent, and the state is idle (no pending submission,
\* no expiry timer).
C3_ExpiryReturnsToIdle ==
  /\ pendingSubmission # NoPending =>
       \E t \in timers : /\ t.kind = "expiry" /\ t.id = pendingTimeout
                         /\ t.due = lastClick[1].submittedAt + RESULT_TIMEOUT_MS
                         /\ now <= t.due
  /\ sub.endedBy = "expiry" =>
       /\ sub.endedAt = lastClick[1].submittedAt + RESULT_TIMEOUT_MS
       /\ sub.built = 0 /\ sub.attempts = 0
       /\ pendingSubmission = NoPending
       /\ pendingTimeout = Undefined
       /\ NoExpiryTimer

\* C3 witness: the submission of a second, later click expired
C3_Witness ==
  /\ sub.endedBy = "expiry" /\ clicks = 2 /\ lastClick[1].submittedAt > 0
  /\ pendingSubmission = NoPending

\* C4: the pending slot holds the snapshot of the latest click, and every
\* payload built carries that click's timestamp and that click's snapshot
\* fields where it has them; a payload sent is the payload built.
C4_OnlyLatestSnapshotLogs ==
  /\ [](pendingSubmission # NoPending => pendingSubmission = lastClick)
  /\ [][ Len(built') > Len(built) =>
           LET p == built'[Len(built')]
               c == lastClick[1]
           IN /\ p.capturedAt = c.submittedAt
              /\ c.problemText # Absent => p.problemText = c.problemText
              /\ c.problemId # Absent => p.problemId = c.problemId
              /\ c.userAnswer # Absent => p.userAnswer = c.userAnswer
              /\ Len(sent') > Len(sent) => sent'[Len(sent')] = p ]_vars

\* C4 witness: a scan armed before the second click fired after it and sent a
\* payload stamped with the second click
C4_Witness ==
  /\ clicks = 2 /\ lastEvent.kind = "scan" /\ lastEvent.stale /\ lastEvent.delivered
  /\ sub.endedBy = "wrong"
  /\ sent # << >> /\ sent[Len(sent)].capturedAt = lastClick[1].submittedAt

\* =========================================================== dedup gate claim
\* C5: if the followed signature is passed to shouldLog twice and fewer than
\* 50 distinct other signatures were passed in between, the two calls do not
\* both return true and do not both reach sendLog: a call that follows a call
\* that returned true returns true again, or sends, only after at least 50
\* distinct other signatures.
C5_DedupWithinWindow ==
  /\ dedup.lastT.delivered => dedup.lastT.ret
  /\ (dedup.lastT.afterTrue /\ dedup.lastT.ret) => dedup.lastT.between >= MAX_RECENT_LOGS

\* C5 witness: the second call came after 49 distinct other signatures and
\* was refused
C5_Witness ==
  /\ dedup.lastT.afterTrue /\ ~dedup.lastT.ret /\ ~dedup.lastT.delivered
  /\ dedup.lastT.between = MAX_RECENT_LOGS - 1

\* C15: the dedup set never holds more than 50 signatures, each once.  A
\* call with a signature that is present returns false (nothing is sent) and
\* leaves the set and its order as they were; a call with a new signature
\* returns true (the payload is sent) and puts the signature last, after
\* dropping the oldest-inserted one, and only that one, if the set was full.
C15_DedupSetBounded ==
  /\ [](/\ Len(recentSignatures) <= MAX_RECENT_LOGS
        /\ \A i, j \in DOMAIN recentSignatures :
              i # j => recentSignatures[i] # recentSignatures[j])
  /\ [][ \A k \in {1, 2, dedup.nextSig} : \A c \in (IF k = 1 THEN {10, 20} ELSE {10}) :
           GateCall(k, c) =>
             LET payload == DedupPayload(k, c)
                 signature == Signature(payload)
             IN IF Has(recentSignatures, signature)
                  THEN /\ recentSignatures' = recentSignatures
                       /\ sent' = sent
                  ELSE /\ sent' = Append(sent, payload)
                       /\ recentSignatures' =
                            IF Len(recentSignatures) = MAX_RECENT_LOGS
                              THEN Append(Tail(recentSignatures), signature)
                              ELSE Append(recentSignatures, signature) ]_vars

\* C15 witness: the set is full and signature 2, inserted earlier, has been
\* evicted from it
C15_Witness ==
  /\ Len(recentSignatures) = MAX_RECENT_LOGS
  /\ dedup.nextSig > 2
  /\ ~ Has(recentSignatures, Signature(DedupPayload(2, 10)))

\* ====================================================== service worker claims
InSeq(x, q) == \E i \in DOMAIN q : q[i] = x
Last(q) == q[Len(q)]
Front(q) == SubSeq(q, 1, Len(q) - 1)

AttemptPayloads(at) == [i \in DOMAIN at |-> at[i][1]]

RECURSIVE FailedOf(_)
FailedOf(at) ==
  IF at = << >> THEN << >>
  ELSE IF Head(at)[2] THEN FailedOf(Tail(at)) ELSE <<Head(at)[1]>> \o FailedOf(Tail(at))

\* C6: a handled LOG_WRONG_PROBLEM message was either written to the remote
\* store (signed in, write succeeded) or, when signed out or when the write
\* failed, saved at the tail of the durable queue, behind what the handler had
\* loaded, with the response reporting the length of the queue saved.
C6_UndeliveredIsQueued ==
  /\ [](\A m \in Msgs : msgs[m].pc = "done" =>
          IF msgs[m].resp.kind = "delivered"
            THEN msgs[m].user # NoUser /\ InSeq(m, remote)
            ELSE /\ msgs[m].resp.kind = (IF msgs[m].user = NoUser THEN "queued" ELSE "error")
                 /\ msgs[m].queue # << >>
                 /\ Last(msgs[m].queue) = m
                 /\ msgs[m].resp.queuedCount = Len(msgs[m].queue))
  /\ [][ \A m \in Msgs : (msgs[m].pc = "enqSave" /\ msgs'[m].pc = "done") =>
           /\ storageQueue' = msgs'[m].queue
           /\ Last(storageQueue') = m
           /\ Len(msgs[m].queue) < MAX_QUEUE_SIZE => Front(storageQueue') = msgs[m].queue ]_vars

\* C6 witness: signed in, the write failed, and the payload went behind an
\* entry already queued
C6_Witness ==
  \E m \in Msgs : /\ msgs[m].pc = "done" /\ msgs[m].resp.kind = "error"
                  /\ Len(storageQueue) = 2 /\ Last(storageQueue) = m
                  /\ msgs[m].resp.queuedCount = 2

\* C7: no payload is written to the remote store twice.
C7_AtMostOnceDelivery ==
  \A i, j \in DOMAIN remote : i # j => remote[i] # remote[j]

\* C8: a flush pass is run for a signed-in user only; it attempts the payloads
\* of the queue it loaded once each, in queue order; the payloads whose write
\* succeeded are in the remote store; and the list it saves as the durable
\* queue is exactly the payloads whose write failed, in their original order.
C8_FlushKeepsExactlyFailed ==
  /\ [](\A a \in AuthEvents : auths[a].pc \in {"flWrite", "flSave", "flSaved"} =>
          /\ auths[a].user # NoUser
          /\ AttemptPayloads(auths[a].attempts) \o auths[a].todo = auths[a].loaded
          /\ auths[a].remaining = FailedOf(auths[a].attempts)
          /\ \A i \in DOMAIN auths[a].attempts :
               auths[a].attempts[i][2] => InSeq(auths[a].attempts[i][1], remote)
          /\ auths[a].pc # "flWrite" => auths[a].todo = << >>)
  /\ [][ \A a \in AuthEvents : (auths[a].pc = "flSave" /\ auths'[a].pc = "flSaved") =>
           /\ AttemptPayloads(auths[a].attempts) = auths[a].loaded
           /\ storageQueue' = FailedOf(auths[a].attempts) ]_vars

\* C8 witness: a pass over two payloads delivered the first, failed on the
\* second, and saved the queue holding the second only
C8_Witness ==
  \E a \in AuthEvents :
    /\ auths[a].pc = "flSaved"
    /\ Len(auths[a].loaded) = 2
    /\ auths[a].attempts = << <<auths[a].loaded[1], TRUE>>, <<auths[a].loaded[2], FALSE>> >>
    /\ storageQueue = << auths[a].loaded[2] >>

\* C9: at most one flush pass is running at any time; it is the one held in
\* flushInFlight; a callback that found a pass in flight waits for it and
\* loads and writes nothing itself.
FlushRunning == { a \in AuthEvents : auths[a].pc \in {"flLoad", "flWrite", "flSave", "flSaved"} }

C9_SingleFlushInFlight ==
  /\ Cardinality(FlushRunning) <= 1
  /\ \A a \in FlushRunning : flushInFlight = a
  /\ flushInFlight # NoFlush => flushInFlight \in FlushRunning
  /\ \A a \in AuthEvents : auths[a].pc = "wait" =>
       /\ flushInFlight \in FlushRunning \ {a}
       /\ auths[a].loaded = << >> /\ auths[a].attempts = << >>

\* C9 witness: one callback waits while another's pass is writing
C9_Witness ==
  \E a, b \in AuthEvents : auths[a].pc = "wait" /\ auths[b].pc = "flWrite"

\* C10: the durable queue never holds more than 200 payloads; an enqueue saves
\* the last 200 entries of the loaded queue followed by the new payload, so
\* what is dropped comes off the head and the new payload is at the tail.
C10_QueueBounded ==
  /\ [](Len(storageQueue) <= MAX_QUEUE_SIZE)
  /\ [][ \A m \in Msgs : (msgs[m].pc = "enqSave" /\ msgs'[m].pc = "done") =>
           LET full == Append(msgs[m].queue, m)
               drop == IF Len(full) > MAX_QUEUE_SIZE THEN Len(full) - MAX_QUEUE_SIZE ELSE 0
           IN /\ storageQueue' = SubSeq(full, drop + 1, Len(full))
              /\ Last(storageQueue') = m ]_vars

\* C10 witness: an enqueue into a full queue dropped the oldest entry and kept
\* the new payload at the tail
C10_Witness ==
  /\ Len(storageQueue) = MAX_QUEUE_SIZE
  /\ Head(storageQueue) = OldQueue(2)[2]
  /\ \E m \in Msgs : msgs[m].pc = "done" /\ Last(storageQueue) = m

\* C13: a marker that is present in a candidate document while a submission
\* is pending gets scanned before the submission expires: no submission
\* expires while the detector would have answered correct or wrong for the
\* length of a scan delay or more.
C13_PresentMarkerIsScanned ==
  sub.endedBy = "expiry" =>
    ~ (sub.markerAt # NoMarker /\ sub.endedAt - sub.markerAt >= RESULT_SCAN_DELAY_MS)

\* the outstanding timers of a kind
TimersOf(kind) == { t \in timers : t.kind = kind }

\* C12: at most one scan timer and at most one expiry timer are outstanding,
\* and they are the ones whose ids the scanTimeout and pendingTimeout slots hold.
C12_AtMostOneTimerEach ==
  /\ Cardinality(TimersOf("scan")) <= 1
  /\ Cardinality(TimersOf("expiry")) <= 1
  /\ \A t \in TimersOf("scan") : t.id = scanTimeout
  /\ \A t \in TimersOf("expiry") : t.id = pendingTimeout

\* C12 witness: after a second click, later than the first, one scan timer
\* is outstanding next to the re-armed expiry timer
C12_Witness ==
  /\ clicks = 2 /\ lastClick[1].submittedAt > 0
  /\ \E t \in TimersOf("scan") : t.id = scanTimeout
  /\ \E t \in TimersOf("expiry") : t.armedAt = lastClick[1].submittedAt

\* C14: a scan timer is due one scan delay after it was armed and stays so; a
\* step taken while a scan timer is outstanding leaves the scan timers as they
\* are (no new one, none postponed) unless it is that timer firing, after
\* which none is outstanding; a scan timer is armed only when none is
\* outstanding and a submission is pending, so a mutation notification with
\* no submission pending arms none.
C14_Coalescing ==
  /\ [](\A t \in TimersOf("scan") :
          t.due = t.armedAt + RESULT_SCAN_DELAY_MS /\ now <= t.due)
  /\ [][ /\ TimersOf("scan") # {} =>
             \/ TimersOf("scan")' = TimersOf("scan")
             \/ /\ TimersOf("scan")' = {}
                /\ \A t \in TimersOf("scan") : t.due = now
                /\ lastEvent'.kind = "scan"
         /\ TimersOf("scan")' \ TimersOf("scan") # {} =>
             /\ TimersOf("scan") = {}
             /\ pendingSubmission' # NoPending
             /\ Cardinality(TimersOf("scan")') = 1 ]_vars

\* C14 witness: the click armed timers 1 (expiry) and 2 (scan); the wrong
\* marker then appeared, its mutation notification arriving while timer 2 was
\* outstanding, and no further timer was created
C14_Witness ==
  /\ clicks = 1 /\ sub.endedBy = "pending" /\ sub.jNew
  /\ \E t \in TimersOf("scan") : t.id = 2 /\ t.armedAt = lastClick[1].submittedAt
  /\ nextTimerId = 3

\* C16: a scan timer firing with no submission pending, or with one pending
\* and the detector answering unknown, consumes that timer and empties the
\* scanTimeout slot and changes nothing else: the pending submission, the
\* expiry timer and its slot, the dedup set and what was built and sent stay
\* as they were and no timer is armed.  With the slot empty, the next
\* mutation notification for a pending submission arms a scan.
C16_ScanWithoutResultIsNoOp ==
  /\ [][ \A t \in timers :
           (ScanFire(t) /\ (pendingSubmission = NoPending \/ getResultState = "unknown")) =>
             /\ scanTimeout' = Undefined
             /\ timers' = timers \ {t}
             /\ nextTimerId' = nextTimerId
             /\ pendingSubmission' = pendingSubmission
             /\ pendingTimeout' = pendingTimeout
             /\ recentSignatures' = recentSignatures
             /\ built' = built /\ sent' = sent ]_vars
  /\ []((pendingSubmission # NoPending /\ scanTimeout = Undefined) =>
          scheduleResultScan(CS).scanTimeout # Undefined)

\* C16 witness: the scan armed by the click fired with the submission pending
\* and found nothing (the submission later expired); the scan armed by a late
\* marker fired after the expiry, with nothing pending and the wrong marker
\* showing, and nothing was sent
C16_Witness ==
  /\ lastEvent.kind = "scan" /\ ~lastEvent.hadPending /\ lastEvent.result = "wrong"
  /\ clicks = 1 /\ sub.endedBy = "expiry" /\ nextTimerId = 4
  /\ timers = {} /\ scanTimeout = Undefined /\ sent = << >>

\* C18: a payload is built from the snapshot that is pending, which is the
\* latest click's: each of problemText, problemId and userAnswer is the
\* snapshot's when the snapshot has it and what the page shows at the scan
\* when it has not; capturedAt is the click's timestamp; correctAnswer is
\* absent and resultText is the literal.  A payload sent is the payload built.
C18_PayloadFields ==
  [][ Len(built') > Len(built) =>
        LET p == built'[Len(built')]
            snap == pendingSubmission[1]
        IN /\ Len(built') = Len(built) + 1
           /\ pendingSubmission # NoPending /\ snap = lastClick[1]
           /\ p.problemText = (IF snap.problemText # Absent THEN snap.problemText
                                ELSE page.problemText)
           /\ p.problemId = (IF snap.problemId # Absent THEN snap.problemId
                              ELSE page.problemId)
           /\ p.userAnswer = (IF snap.userAnswer # Absent THEN snap.userAnswer
                               ELSE page.userAnswer)
           /\ p.capturedAt = snap.submittedAt
           /\ p.correctAnswer = Absent
           /\ p.resultText = RESULT_TEXT
           /\ sent' \in {sent, Append(sent, p)} ]_vars

\* C18 witness: the click found an id and an answer but no problem text; the
\* page then showed a text and another answer, and the payload sent by a
\* later scan has the snapshot's id and answer, the text read at the scan,
\* and the click's time
C18_Witness ==
  /\ lastEvent.kind = "scan" /\ lastEvent.delivered
  /\ lastClick[1].problemText = Absent
  /\ lastClick[1].problemId # Absent /\ lastClick[1].userAnswer # Absent
  /\ sent[Len(sent)].problemId = lastClick[1].problemId
  /\ sent[Len(sent)].userAnswer = lastClick[1].userAnswer
  /\ page.userAnswer \notin {Absent, lastClick[1].userAnswer}
  /\ sent[Len(sent)].problemText = page.problemText /\ page.problemText # Absent
  /\ page.problemId = Absent
  /\ sent[Len(sent)].capturedAt = lastClick[1].submittedAt
  /\ sent[Len(sent)].capturedAt < now

\* ------------------------------------------------------- text extractor claim
\* C19: what the extractor returns for an element text is either absent or a
\* string that is not empty, is at most 2000 characters long, has no
\* whitespace at either end and no whitespace other than single spaces
\* between non-whitespace characters; it is absent exactly when the text has
\* no character that is not whitespace.
C19_NormalizedAndBounded ==
  LET out == norm.output.text IN
  /\ norm.output.absent <=> (\A i \in DOMAIN norm.textContent :
                               IsWhitespace(norm.textContent[i].ch))
  /\ ~ norm.output.absent =>
       /\ out # << >>
       /\ TextLength(out) <= MAX_TEXT_LENGTH
       /\ ~ IsWhitespace(out[1].ch)
       /\ ~ IsWhitespace(out[Len(out)].ch)
       /\ \A i \in DOMAIN out :
            IsWhitespace(out[i].ch) =>
              /\ out[i] = [ch |-> " ", n |-> 1]
              /\ i + 1 \in DOMAIN out => ~ IsWhitespace(out[i + 1].ch)

\* ------------------------------------------------------ result detector claim
\* position of document d in the order top document, iframes in document order
DetPos(d) == IF d = 0 THEN 0 ELSE CHOOSE i \in DOMAIN DetFrameSeq : DetFrameSeq[i] = d

\* element i of document d can be read and its trimmed text is a marker
DetHit(d, i) ==
  /\ (d = 0 \/ det.access[d] = "ok")
  /\ Trim(det.sp[d][i]) \in {TxtJ, TxtQ}

\* C17: the detector's answer is the outcome of the marker element that comes
\* first, by document (top document, then the readable iframe documents in
\* document order) and then by element, wrong for 'J' and correct for 'q' after
\* trimming; it is unknown when there is none.  An iframe whose document is
\* null or throws on access contributes nothing, and the answer is always one
\* of the three outcomes.
C17_FirstMarkerWins ==
  det.scanned =>
    /\ det.result \in {"wrong", "correct", "unknown"}
    /\ IF \E d \in DetDocs : \E i \in DOMAIN det.sp[d] : DetHit(d, i)
         THEN \E d \in DetDocs : \E i \in DOMAIN det.sp[d] :
                /\ DetHit(d, i)
                /\ \A e \in DetDocs : \A j \in DOMAIN det.sp[e] :
                     DetHit(e, j) => (DetPos(d) < DetPos(e) \/ (d = e /\ i <= j))
                /\ det.result = (IF Trim(det.sp[d][i]) = TxtJ THEN "wrong" ELSE "correct")
         ELSE det.result = "unknown"

\* C17 witness: the top document holds no result element;
\* the first iframe holds 'J' but reading its document throws; the second
\* iframe is readable and holds 'q' before 'J': the answer is correct
C17_Witness ==
  /\ det.scanned /\ det.result = "correct"
  /\ det.sp[0] = << >>
  /\ det.access[2] = "throws" /\ det.sp[2] = <<TxtJ>>
  /\ det.access[1] = "ok" /\ det.sp[1] = <<TxtQ, TxtJ>>

\* at rest: no message handler and no auth callback is part-way through
AtRest ==
  /\ \A m \in Msgs : msgs[m].pc \in {"new", "done"}
  /\ \A a \in AuthEvents : auths[a].pc \in {"new", "done"}

\* no remote write has thrown: no handler answered with an error and no pass
\* recorded a failed attempt
NoWriteFailed ==
  /\ \A k \in Msgs : msgs[k].resp.kind # "error"
  /\ \A a \in AuthEvents :
       \A i \in 1 .. Len(auths[a].attempts) : auths[a].attempts[i][2]

\* C11: a payload that was placed in the durable queue, after which a user
\* signed in, has been delivered and is out of the queue once the handlers and
\* the flush that sign-in started have finished without any remote write
\* failing.
C11_QueuedIsFlushedOnSignIn ==
  \A m \in Msgs :
    (msgs[m].placed /\ msgs[m].signedIn /\ NoWriteFailed /\ AtRest) =>
      (InSeq(m, remote) /\ ~InSeq(m, storageQueue))

\* C20: a payload that an enqueue saved in the durable queue after a flush
\* pass loaded it (it is in the queue but not in what the pass loaded) is,
\* once the pass has saved its remaining list, still in the durable queue or
\* in the remote store.
C20_EnqueuedDuringFlushIsKept ==
  [][ \A a \in AuthEvents :
        FlushSave(a) =>
          \A m \in Msgs :
            (InSeq(m, storageQueue) /\ ~InSeq(m, auths[a].loaded)) =>
              (InSeq(m, storageQueue') \/ InSeq(m, remote')) ]_vars

\* no auth change has happened: the worker has been signed out throughout
SignedOutThroughout ==
  /\ currentUser = NoUser
  /\ \A a \in AuthEvents : auths[a].pc = "new"

\* C21: while signed out, the save of one LOG_WRONG_PROBLEM handler's enqueue
\* never removes a payload another handler's enqueue has put in the durable
\* queue, and puts its own there: both payloads end up in the queue.
C21_ConcurrentEnqueuesBothKept ==
  [][ \A m \in Msgs :
        (SignedOutThroughout /\ EnqSave(m)) =>
          /\ InSeq(m, storageQueue')
          /\ \A k \in Msgs : InSeq(k, storageQueue) => InSeq(k, storageQueue') ]_vars

\* C22: a submission is pending exactly when an expiry timer is outstanding;
\* that timer is the one the pendingTimeout slot holds, it was armed by the
\* click that took the pending snapshot and is due one result timeout later,
\* so no timer of an earlier submission is left to clear a later one early.
C22_PendingIffExpiryTimer ==
  /\ (pendingSubmission # NoPending) <=> (TimersOf("expiry") # {})
  /\ (pendingSubmission # NoPending) <=> (pendingTimeout # Undefined)
  /\ \A t \in TimersOf("expiry") :
       /\ t.id = pendingTimeout
       /\ t.armedAt = pendingSubmission[1].submittedAt
       /\ t.due = t.armedAt + RESULT_TIMEOUT_MS

\* C22 witness: a second click came later than the first, and its submission
\* is still pending with its expiry timer at a time when the first click's
\* timer would have fired.
C22_Witness ==
  /\ clicks = 2 /\ lastClick[1].submittedAt > 0
  /\ now >= RESULT_TIMEOUT_MS
  /\ pendingSubmission # NoPending
  /\ pendingSubmission[1].submittedAt = lastClick[1].submittedAt
  /\ \E t \in TimersOf("expiry") : t.id = pendingTimeout /\ t.due > now

====
